---- MODULE Spec2Model ----
(***************************************************************************)
(* Payload builders of urbanairship/push/payload.py.                       *)
(*                                                                         *)
(* Every builder is a function of its keyword arguments.  A call is one    *)
(* step of the state machine: it picks the builder and its arguments and   *)
(* records the outcome (the returned document or the raised exception)     *)
(* and the arguments as they are once the call is over.                    *)
(*                                                                         *)
(* The interpreter is one that provides collections.Sequence (Python 2.7   *)
(* to 3.9), the interpreters payload.py lines 5-13 are written for.        *)
(***************************************************************************)
EXTENDS Integers, Sequences, FiniteSets, TLC

VARIABLES fn, args, argsAfter, outcome

vars == <<fn, args, argsAfter, outcome>>

(***************************************************************************)
(* Bounds of the model.                                                    *)
(***************************************************************************)
\* At most this many arguments of one call differ from their defaults.
MaxSupplied == 3
\* At most this many tags in one call of device_types.
MaxTypes == 3

(***************************************************************************)
(* Python values.                                                          *)
(***************************************************************************)
None == [tag |-> "NoneType"]
PyStr(s) == [tag |-> "str", s |-> s]
PyInt(n) == [tag |-> "int", n |-> n]
PyBool(b) == [tag |-> "bool", b |-> b]
\* The float num/den, den > 0.
PyFloat(num, den) == [tag |-> "float", num |-> num, den |-> den]
PyDict(m) == [tag |-> "dict", map |-> m]
PyList(xs) == [tag |-> "list", items |-> xs]
PyTuple(xs) == [tag |-> "tuple", items |-> xs]
\* A module-level function object, by name.
PyFunction(name) == [tag |-> "function", name |-> name]
\* A reference back to the object that holds it (a dictionary stored in
\* itself).
SelfRef == [tag |-> "ref"]

EmptyMap == <<>>

\* d[key] = val
SetItem(m, key, val) == (key :> val) @@ m

\* isinstance(x, string_type)
IsString(x) == x.tag = "str"
\* isinstance(x, int): bool is a subclass of int
IsInt(x) == x.tag \in {"int", "bool"}
\* isinstance(x, bool)
IsBool(x) == x.tag = "bool"
\* isinstance(x, dict)
IsDict(x) == x.tag = "dict"
\* isinstance(x, list)
IsList(x) == x.tag = "list"
\* isinstance(x, collections.Sequence)
IsSequence(x) == x.tag \in {"str", "list", "tuple"}

\* bool(x): the truth value of x
Truthy(x) ==
    CASE x.tag = "NoneType" -> FALSE
      [] x.tag = "str" -> Len(x.s) > 0
      [] x.tag = "int" -> x.n # 0
      [] x.tag = "bool" -> x.b
      [] x.tag = "float" -> x.num # 0
      [] x.tag = "dict" -> DOMAIN x.map # {}
      [] x.tag \in {"list", "tuple"} -> Len(x.items) > 0
      [] OTHER -> TRUE

(***************************************************************************)
(* The outcome of a call, and the steps of a builder's body.  A step       *)
(* stores entries into the payload, raises, or both (an entry stored       *)
(* before the check that raises).  The body runs its steps in order: the   *)
(* first step that raises ends the call and the payload is dropped.        *)
(***************************************************************************)
Return(v) == [kind |-> "return", value |-> v, exc |-> "-"]
Raise(e) == [kind |-> "raise", value |-> None, exc |-> e]

Skip == [put |-> EmptyMap, exc |-> "-"]
\* payload[key] = val
Store(key, val) == [put |-> key :> val, exc |-> "-"]
\* raise e
Throw(e) == [put |-> EmptyMap, exc |-> e]
\* payload[key] = val, then raise e
StoreThenThrow(key, val, e) == [put |-> key :> val, exc |-> e]

\* Mutant of StoreIfSupplied: the field is stored even when it is None.
StoreAlways(key, val) == Store(key, val)

\* if val is not None: payload[key] = val
StoreIfSupplied(key, val) == IF val # None THEN Store(key, val) ELSE Skip

RECURSIVE Payload(_, _)
\* The payload after the first i steps; a later store to a key replaces an
\* earlier one.
Payload(steps, i) ==
    IF i = 0 THEN EmptyMap ELSE steps[i].put @@ Payload(steps, i - 1)

\* Mutant of Run: a body that raises hands back the payload built so far.
Run_partial(steps) == Return(PyDict(Payload(steps, Len(steps))))

Run(steps) ==
    LET raising == {i \in DOMAIN steps : steps[i].exc # "-"}
    IN IF raising # {}
       THEN Raise(steps[CHOOSE i \in raising : \A j \in raising : i <= j].exc)
       ELSE Return(PyDict(Payload(steps, Len(steps))))

(***************************************************************************)
(* notification (payload.py 24-68)                                         *)
(***************************************************************************)
RECURSIVE OpenItems_bare(_, _)
\* Mutant of OpenItems: the entries are stored under the bare platform name.
OpenItems_bare(m, todo) ==
    IF todo = {} THEN EmptyMap
    ELSE LET platform == CHOOSE k \in todo : TRUE
         IN SetItem(OpenItems_bare(m, todo \ {platform}),
                    platform, m[platform])

RECURSIVE OpenItems(_, _)
\* for platform, overrides in open_platform.items():
\*     payload['open::' + platform] = overrides
OpenItems(m, todo) ==
    IF todo = {} THEN EmptyMap
    ELSE LET platform == CHOOSE k \in todo : TRUE
         IN SetItem(OpenItems(m, todo \ {platform}),
                    "open::" \o platform, m[platform])

\* Lines 44-65: the payload before the check of line 66.
NotificationPayload(a) ==
    Run(<<
      StoreIfSupplied("alert", a.alert),
      StoreIfSupplied("actions", a.actions),
      StoreIfSupplied("ios", a.ios),
      StoreIfSupplied("android", a.android),
      StoreIfSupplied("amazon", a.amazon),
      StoreIfSupplied("web", a.web),
      StoreIfSupplied("wns", a.wns),
      StoreIfSupplied("interactive", a.interactive),
      StoreIfSupplied("in_app", a.in_app),
      IF a.open_platform # None
      THEN IF IsDict(a.open_platform)
           THEN [put |-> OpenItems(a.open_platform.map,
                                   DOMAIN a.open_platform.map),
                 exc |-> "-"]
           \* no .items() on anything but a mapping
           ELSE Throw("AttributeError")
      ELSE Skip >>)

\* Mutant of notification: the check of lines 66-67 left out.
notification_unchecked(a) == NotificationPayload(a)

notification(a) ==
    \* if not payload: raise ValueError
    IF /\ NotificationPayload(a).kind = "return"
       /\ DOMAIN NotificationPayload(a).value.map = {}
    THEN Raise("ValueError")
    ELSE NotificationPayload(a)

(***************************************************************************)
(* Patterns and membership tests (payload.py 15-21)                        *)
(***************************************************************************)
Digits == {"0", "1", "2", "3", "4", "5", "6", "7", "8", "9"}
HexDigits == Digits \cup {"a", "b", "c", "d", "e", "f"}

CharsIn(s, cs) == \A i \in 1..Len(s) : SubSeq(s, i, i) \in cs

\* auto|[+-][\d]+
AutobadgeBody(s) ==
    \/ s = "auto"
    \/ /\ Len(s) >= 2
       /\ SubSeq(s, 1, 1) \in {"+", "-"}
       /\ CharsIn(SubSeq(s, 2, Len(s)), Digits)

\* #[0-9a-f]{6}
IconColorBody(s) ==
    /\ Len(s) = 7
    /\ SubSeq(s, 1, 1) = "#"
    /\ CharsIn(SubSeq(s, 2, 7), HexDigits)

\* s without the newline that ends it, if one does: in re.match, $ matches
\* at the end of s and also just before a newline that ends s.
Chomp(s) ==
    IF Len(s) >= 1 /\ SubSeq(s, Len(s), Len(s)) = "\n"
    THEN SubSeq(s, 1, Len(s) - 1) ELSE s

\* VALID_AUTOBADGE.match(s), the pattern ^(auto|[+-][\d]+)$
VALID_AUTOBADGE(s) == AutobadgeBody(s) \/ AutobadgeBody(Chomp(s))
\* VALID_ICON_COLOR.match(s), the pattern ^#[0-9a-f]{6}$
VALID_ICON_COLOR(s) == IconColorBody(s) \/ IconColorBody(Chomp(s))

VALID_ANDROID_CATEGORIES ==
    {"alarm", "call", "email", "err", "event", "msg", "promo",
     "recommendation", "service", "social", "status", "sys", "transport"}

\* x == n for an integer n: 5 == 5.0 and 1 == True in Python
NumEq(x, n) ==
    CASE x.tag = "int" -> x.n = n
      [] x.tag = "bool" -> (IF x.b THEN 1 ELSE 0) = n
      [] x.tag = "float" -> x.num = n * x.den
      [] OTHER -> FALSE

\* Mutant of Hashable: every value can be hashed.
Hashable_all(x) == TRUE

\* hash(x) raises TypeError for lists and dictionaries
Hashable(x) == x.tag \notin {"list", "dict"}

\* Mutant of InRange: the upper bound is excluded.
InRange_exclusive(x, lo, hi) == \E n \in lo..(hi - 1) : NumEq(x, n)

\* x in range(lo, hi + 1)
InRange(x, lo, hi) == \E n \in lo..hi : NumEq(x, n)

\* if val is not None:
\*     if not <ok>: raise e
\*     payload[key] = val
Checked(key, val, ok, e) ==
    IF val # None THEN (IF ~ok THEN Throw(e) ELSE Store(key, val)) ELSE Skip

\* if val is not None:
\*     payload[key] = val
\*     if not <ok>: raise e
CheckedLate(key, val, ok, e) ==
    IF val # None
    THEN (IF ~ok THEN StoreThenThrow(key, val, e) ELSE Store(key, val))
    ELSE Skip

(***************************************************************************)
(* ios (payload.py 71-162)                                                 *)
(***************************************************************************)
ios(a) ==
    Run(<<
      Checked("alert", a.alert, IsString(a.alert) \/ IsDict(a.alert),
              "ValueError"),
      Checked("badge", a.badge,
              /\ IsString(a.badge) \/ IsInt(a.badge)
              /\ IsString(a.badge) => VALID_AUTOBADGE(a.badge.s),
              "ValueError"),
      StoreIfSupplied("sound", a.sound),
      IF Truthy(a.content_available)
      THEN Store("content-available", PyInt(1)) ELSE Skip,
      StoreIfSupplied("extra", a.extra),
      Checked("expiry", a.expiry, IsString(a.expiry) \/ IsInt(a.expiry),
              "ValueError"),
      StoreIfSupplied("interactive", a.interactive),
      Checked("category", a.category, IsString(a.category), "ValueError"),
      Checked("title", a.title, IsString(a.title), "ValueError"),
      StoreIfSupplied("mutable_content", a.mutable_content),
      StoreIfSupplied("subtitle", a.subtitle),
      StoreIfSupplied("media_attachment", a.media_attachment),
      \* priority not in {10, 5} hashes priority
      IF a.priority # None /\ ~Hashable(a.priority)
      THEN Throw("TypeError")
      ELSE Checked("priority", a.priority,
                   NumEq(a.priority, 10) \/ NumEq(a.priority, 5),
                   "ValueError"),
      Checked("collapse_id", a.collapse_id, IsString(a.collapse_id),
              "ValueError") >>)

(***************************************************************************)
(* android (payload.py 165-297)                                            *)
(***************************************************************************)
android(a) ==
    Run(<<
      StoreIfSupplied("alert", a.alert),
      StoreIfSupplied("collapse_key", a.collapse_key),
      CheckedLate("time_to_live", a.time_to_live,
                  IsString(a.time_to_live) \/ IsInt(a.time_to_live),
                  "ValueError"),
      IF Truthy(a.delay_while_idle)
      THEN Store("delay_while_idle", PyBool(TRUE)) ELSE Skip,
      StoreIfSupplied("extra", a.extra),
      StoreIfSupplied("interactive", a.interactive),
      Checked("local_only", a.local_only, IsBool(a.local_only), "ValueError"),
      Checked("wearable", a.wearable, IsDict(a.wearable), "ValueError"),
      \* delivery_priority not in {'high', 'normal'} hashes delivery_priority
      IF a.delivery_priority # None /\ ~Hashable(a.delivery_priority)
      THEN Throw("TypeError")
      ELSE Checked("delivery_priority", a.delivery_priority,
                   a.delivery_priority \in {PyStr("high"), PyStr("normal")},
                   "ValueError"),
      StoreIfSupplied("style", a.style),
      StoreIfSupplied("title", a.title),
      StoreIfSupplied("summary", a.summary),
      StoreIfSupplied("sound", a.sound),
      Checked("priority", a.priority, InRange(a.priority, -2, 2),
              "ValueError"),
      Checked("category", a.category,
              IsString(a.category)
                  /\ a.category.s \in VALID_ANDROID_CATEGORIES,
              "ValueError"),
      Checked("visibility", a.visibility, InRange(a.visibility, -1, 1),
              "ValueError"),
      StoreIfSupplied("public_notification", a.public_notification),
      StoreIfSupplied("notification_tag", a.notification_tag),
      StoreIfSupplied("notification_channel", a.notification_channel),
      StoreIfSupplied("icon", a.icon),
      Checked("icon_color", a.icon_color,
              IsString(a.icon_color) => VALID_ICON_COLOR(a.icon_color.s),
              "ValueError") >>)

(***************************************************************************)
(* amazon (payload.py 300-344)                                             *)
(***************************************************************************)
amazon(a) ==
    Run(<<
      StoreIfSupplied("alert", a.alert),
      StoreIfSupplied("consolidation_key", a.consolidation_key),
      CheckedLate("expires_after", a.expires_after,
                  IsString(a.expires_after) \/ IsInt(a.expires_after),
                  "ValueError"),
      StoreIfSupplied("extra", a.extra),
      StoreIfSupplied("title", a.title),
      StoreIfSupplied("summary", a.summary),
      StoreIfSupplied("interactive", a.interactive),
      StoreIfSupplied("style", a.style),
      StoreIfSupplied("sound", a.sound) >>)

(***************************************************************************)
(* web (payload.py 347-394)                                                *)
(***************************************************************************)
web(a) ==
    Run(<<
      StoreIfSupplied("alert", a.alert),
      StoreIfSupplied("extra", a.extra),
      CheckedLate("icon", a.icon, IsDict(a.icon), "TypeError"),
      StoreIfSupplied("title", a.title),
      StoreIfSupplied("interactive", a.interactive),
      Checked("time_to_live", a.time_to_live,
              IsString(a.time_to_live) \/ IsInt(a.time_to_live),
              "ValueError"),
      Checked("require_interaction", a.require_interaction,
              IsBool(a.require_interaction), "ValueError") >>)

(***************************************************************************)
(* open_platform (payload.py 397-454)                                      *)
(***************************************************************************)
open_platform(a) ==
    Run(<<
      StoreIfSupplied("alert", a.alert),
      StoreIfSupplied("title", a.title),
      StoreIfSupplied("extra", a.extra),
      StoreIfSupplied("summary", a.summary),
      StoreIfSupplied("media_attachment", a.media_attachment),
      StoreIfSupplied("interactive", a.interactive) >>)

(***************************************************************************)
(* wns_payload (payload.py 457-474)                                        *)
(***************************************************************************)
\* sum(1 for x in (alert, toast, tile, badge) if x)
TruthyCount(a) ==
    Cardinality({p \in {"alert", "toast", "tile", "badge"} : Truthy(a[p])})

wns_payload(a) ==
    Run(<<
      IF TruthyCount(a) # 1 THEN Throw("ValueError") ELSE Skip,
      StoreIfSupplied("alert", a.alert),
      StoreIfSupplied("toast", a.toast),
      StoreIfSupplied("tile", a.tile),
      StoreIfSupplied("badge", a.badge) >>)

(***************************************************************************)
(* message (payload.py 477-524)                                            *)
(***************************************************************************)
message(a) ==
    Run(<<
      Store("title", a.title),
      Store("body", a.body),
      StoreIfSupplied("content_type", a.content_type),
      StoreIfSupplied("content_encoding", a.content_encoding),
      StoreIfSupplied("extra", a.extra),
      CheckedLate("expiry", a.expiry, IsString(a.expiry) \/ IsInt(a.expiry),
                  "ValueError"),
      Checked("icons", a.icons, IsDict(a.icons), "TypeError"),
      Checked("options", a.options, IsDict(a.options), "TypeError"),
      Checked("campaigns", a.campaigns, IsDict(a.campaigns), "TypeError") >>)

(***************************************************************************)
(* in_app (payload.py 527-563)                                             *)
(***************************************************************************)
\* Mutant of in_app: the payload takes extra as it is before line 561.
in_app_snapshot(a) ==
    Run(<<
      Store("alert", a.alert),
      Store("display_type", a.display_type),
      StoreIfSupplied("expiry", a.expiry),
      StoreIfSupplied("display", a.display),
      StoreIfSupplied("actions", a.actions),
      StoreIfSupplied("interactive", a.interactive),
      Checked("extra", a.extra, IsDict(a.extra), "TypeError") >>)

\* Line 561, extra['extra'] = extra, stores into the argument, not into the
\* payload: only a dictionary takes a string key, every other value raises
\* TypeError.
in_app(a) ==
    Run(<<
      Store("alert", a.alert),
      Store("display_type", a.display_type),
      StoreIfSupplied("expiry", a.expiry),
      StoreIfSupplied("display", a.display),
      StoreIfSupplied("actions", a.actions),
      StoreIfSupplied("interactive", a.interactive),
      IF a.extra # None /\ ~IsDict(a.extra) THEN Throw("TypeError") ELSE Skip
    >>)

\* The arguments of in_app once the call is over: line 561 has stored the
\* caller's extra in itself.
in_app_args(a) ==
    IF a.extra # None /\ IsDict(a.extra)
    THEN [a EXCEPT !.extra = PyDict(SetItem(a.extra.map, "extra", SelfRef))]
    ELSE a

(***************************************************************************)
(* device_types (payload.py 566-583)                                       *)
(***************************************************************************)
\* Mutant of is_open: the prefix compared is 'open:', one colon short.
is_open_one_colon(t) ==
    IsString(t) /\ Len(t.s) >= 5 /\ SubSeq(t.s, 1, 5) = "open:"

\* isinstance(t, string_type) and t.startswith('open::')
is_open(t) ==
    IsString(t) /\ Len(t.s) >= 6 /\ SubSeq(t.s, 1, 6) = "open::"

device_types(types) ==
    IF Len(types) = 1 /\ types[1] = PyStr("all")
    THEN Return(PyStr("all"))
    ELSE IF \E i \in 1..Len(types) :
              /\ types[i] \notin {PyStr("ios"), PyStr("android"),
                                  PyStr("amazon"), PyStr("wns"), PyStr("web")}
              /\ ~is_open(types[i])
         THEN Raise("ValueError")
         ELSE Return(PyList(types))

(***************************************************************************)
(* options (payload.py 586-599)                                            *)
(***************************************************************************)
\* Mutant of options: expiry is checked only when it is supplied.
options_optional(a) ==
    Run(<< CheckedLate("expiry", a.expiry,
                       IsString(a.expiry) \/ IsInt(a.expiry), "ValueError") >>)

options(a) ==
    Run(<<
      StoreIfSupplied("expiry", a.expiry),
      IF ~(IsString(a.expiry) \/ IsInt(a.expiry))
      THEN Throw("ValueError") ELSE Skip >>)

(***************************************************************************)
(* campaigns (payload.py 602-626)                                          *)
(***************************************************************************)
MaxCategories == 10
MaxCategoryLen == 64

\* len(x) of a string, list or tuple
PyLen(x) == IF IsString(x) THEN Len(x.s) ELSE Len(x.items)

\* What the loop of line 620 iterates over: a string has been wrapped in a
\* list by line 618.
CategoryItems(c) ==
    IF IsString(c) THEN <<c>> ELSE IF IsSequence(c) THEN c.items ELSE <<>>

campaigns(a) ==
    IF a.categories = None
    THEN Return(PyDict(EmptyMap))
    ELSE Run(<<
           IF ~IsSequence(a.categories) THEN Throw("TypeError") ELSE Skip,
           IF /\ IsList(a.categories)
              /\ ~Truthy(a.categories) \/ PyLen(a.categories) > MaxCategories
           THEN Throw("ValueError") ELSE Skip,
           IF \E i \in DOMAIN CategoryItems(a.categories) :
                 LET c == CategoryItems(a.categories)[i]
                 IN \/ ~IsString(c)
                    \/ PyLen(c) = 0
                    \/ PyLen(c) > MaxCategoryLen
           THEN Throw("ValueError") ELSE Skip,
           Store("categories", PyList(CategoryItems(a.categories))) >>)

(***************************************************************************)
(* actions (payload.py 629-676)                                            *)
(***************************************************************************)
\* add_tag and remove_tag (lines 652-663)
StoreTag(key, tag) ==
    IF tag # None
    THEN IF ~IsSequence(tag)
         THEN Throw("TypeError")
         ELSE IF IsList(tag) /\ ~Truthy(tag)
              THEN Throw("ValueError")
              ELSE Store(key, tag)
    ELSE Skip

actions(a) ==
    Run(<<
      StoreTag("add_tag", a.add_tag),
      StoreTag("remove_tag", a.remove_tag),
      Checked("open", a.open_, IsDict(a.open_), "TypeError"),
      Checked("share", a.share, IsString(a.share), "TypeError"),
      Checked("app_defined", a.app_defined, IsDict(a.app_defined),
              "TypeError") >>)

(***************************************************************************)
(* interactive (payload.py 679-697)                                        *)
(***************************************************************************)
\* Mutant of interactive: a call without a type returns its payload.
interactive_untyped(a) ==
    Run(<<
      StoreIfSupplied("type", a.type),
      Checked("button_actions", a.button_actions,
              IsDict(a.button_actions), "TypeError") >>)

interactive(a) ==
    IF a.type # None
    THEN Run(<<
           Store("type", a.type),
           Checked("button_actions", a.button_actions,
                   IsDict(a.button_actions), "TypeError") >>)
    ELSE Raise("AttributeError")

(***************************************************************************)
(* The filters (payload.py 700-791)                                        *)
(***************************************************************************)
\* {key: val for key, val in iter(payload.items()) if val is not None}
DropNone(m) == [k \in {j \in DOMAIN m : m[j] # None} |-> m[k]]

wearable(a) ==
    Return(PyDict(DropNone(
        [background_image |-> a.background_image,
         extra_pages |-> a.extra_pages,
         interactive |-> a.interactive])))

public_notification(a) ==
    Return(PyDict(DropNone(
        [title |-> a.title, alert |-> a.alert, summary |-> a.summary])))

\* Mutant of StyleKey: every style keeps its own name as its content key.
StyleKey_same(t) == t.s

\* mapping[style_type] (lines 741-743)
StyleKey(t) ==
    CASE t = PyStr("big_text") -> "big_text"
      [] t = PyStr("big_picture") -> "big_picture"
      [] t = PyStr("inbox") -> "lines"

\* style_type not in mapping.keys() hashes style_type
style(a) ==
    IF ~Hashable(a.style_type)
    THEN Raise("TypeError")
    ELSE IF a.style_type \notin
              {PyStr("big_text"), PyStr("big_picture"), PyStr("inbox")}
         THEN Raise("ValueError")
         ELSE Return(PyDict(DropNone(
                  SetItem([type |-> a.style_type, title |-> a.title,
                           summary |-> a.summary],
                          StyleKey(a.style_type), a.content))))

media_attachment(a) ==
    Return(PyDict(DropNone(
        [url |-> a.url, content |-> a.content, options |-> a.options])))

\* Line 778 builds the document from title, subtitle and the module's
\* function options; body is not read.
content(a) ==
    Return(PyDict(DropNone(
        [title |-> a.title, subtitle |-> a.subtitle,
         options |-> PyFunction("options")])))

crop(a) ==
    Return(PyDict(DropNone(
        [x |-> a.x, y |-> a.y, width |-> a.width, height |-> a.height])))

(***************************************************************************)
(* The calls.                                                              *)
(***************************************************************************)
Hello == PyStr("Hello!")
Text == PyStr("text")
ADoc == PyDict("alert" :> Hello)
EmptyDoc == PyDict(EmptyMap)
Half == PyFloat(1, 2)
\* a document as returned by actions(add_tag='x')
ActionsDoc ==
    actions([add_tag |-> PyStr("x"), remove_tag |-> None, open_ |-> None,
             share |-> None, app_defined |-> None]).value

\* the sequence of n copies of v
Repeat(v, n) == [i \in 1..n |-> v]
RECURSIVE Letters(_)
\* the string of n letters
Letters(n) == IF n = 0 THEN "" ELSE "a" \o Letters(n - 1)

Builders ==
    {"notification", "ios", "android", "amazon", "web", "open_platform",
     "wns_payload", "message", "in_app", "options", "campaigns", "actions",
     "interactive", "wearable", "public_notification", "style",
     "media_attachment", "content", "crop"}

\* The parameters of each builder, in the order of its signature.
Params(f) ==
    CASE f = "notification" ->
           <<"alert", "ios", "android", "amazon", "web", "wns", "actions",
             "interactive", "in_app", "open_platform">>
      [] f = "ios" ->
           <<"alert", "badge", "sound", "content_available", "extra",
             "expiry", "interactive", "category", "title", "mutable_content",
             "subtitle", "media_attachment", "priority", "collapse_id">>
      [] f = "android" ->
           <<"alert", "collapse_key", "time_to_live", "delay_while_idle",
             "extra", "interactive", "local_only", "wearable",
             "delivery_priority", "style", "title", "summary", "sound",
             "priority", "category", "visibility", "public_notification",
             "notification_tag", "notification_channel", "icon",
             "icon_color">>
      [] f = "amazon" ->
           <<"alert", "consolidation_key", "expires_after", "extra", "title",
             "summary", "interactive", "style", "sound">>
      [] f = "web" ->
           <<"alert", "extra", "icon", "title", "interactive", "time_to_live",
             "require_interaction">>
      [] f = "open_platform" ->
           <<"alert", "title", "extra", "summary", "media_attachment",
             "interactive">>
      [] f = "wns_payload" -> <<"alert", "toast", "tile", "badge">>
      [] f = "message" ->
           <<"title", "body", "content_type", "content_encoding", "extra",
             "expiry", "icons", "options", "campaigns">>
      [] f = "in_app" ->
           <<"alert", "display_type", "expiry", "display", "actions",
             "interactive", "extra">>
      [] f = "options" -> <<"expiry">>
      [] f = "campaigns" -> <<"categories">>
      [] f = "actions" ->
           <<"add_tag", "remove_tag", "open_", "share", "app_defined">>
      [] f = "interactive" -> <<"type", "button_actions">>
      [] f = "wearable" -> <<"background_image", "extra_pages", "interactive">>
      [] f = "public_notification" -> <<"title", "alert", "summary">>
      [] f = "style" -> <<"style_type", "content", "title", "summary">>
      [] f = "media_attachment" -> <<"url", "content", "options">>
      [] f = "content" -> <<"title", "subtitle", "body">>
      [] f = "crop" -> <<"x", "y", "width", "height">>

\* The two flags default to False, every other parameter to None (a
\* required parameter left out is modelled as None).
Default(f, p) ==
    IF \/ f = "ios" /\ p = "content_available"
       \/ f = "android" /\ p = "delay_while_idle"
    THEN PyBool(FALSE)
    ELSE None

\* The values a call may pass for parameter p of builder f.
Cand(f, p) ==
    CASE f = "notification" ->
           (CASE p = "alert" -> {Hello, PyStr("")}
              [] p = "open_platform" ->
                   {EmptyDoc, PyDict("sms" :> ADoc),
                    PyDict(("sms" :> ADoc) @@ ("email" :> EmptyDoc)),
                    PyDict("alert" :> ADoc), PyStr("sms")}
              [] OTHER -> {ADoc, EmptyDoc})
      [] f = "ios" ->
           (CASE p = "alert" -> {Hello, ADoc, PyInt(1)}
              [] p = "badge" -> {PyInt(3), PyStr("+1"), PyStr("x1")}
              [] p = "content_available" -> {PyBool(TRUE)}
              [] p = "expiry" -> {PyInt(60), Half}
              [] p \in {"category", "title", "collapse_id"} ->
                   {Text, PyInt(1)}
              [] p = "mutable_content" -> {PyBool(FALSE)}
              [] p = "priority" ->
                   {PyInt(5), PyInt(10), PyInt(7), PyFloat(5, 1),
                    PyList(<<PyInt(5)>>)}
              [] p \in {"extra", "interactive", "media_attachment"} -> {ADoc}
              [] OTHER -> {Text})
      [] f = "android" ->
           (CASE p = "time_to_live" -> {PyInt(60), Half}
              [] p = "delay_while_idle" -> {PyBool(TRUE)}
              [] p = "local_only" -> {PyBool(FALSE), PyInt(1)}
              [] p = "wearable" -> {ADoc, Text}
              [] p = "delivery_priority" ->
                   {PyStr("high"), PyStr("normal"), PyStr("low")}
              [] p = "priority" ->
                   {PyInt(-2), PyInt(2), PyInt(3), PyInt(-3), PyFloat(1, 1),
                    Half}
              [] p = "category" -> {PyStr("promo"), PyStr("spam")}
              [] p = "visibility" ->
                   {PyInt(-1), PyInt(1), PyInt(2), PyInt(-2), PyBool(TRUE),
                    PyList(<<PyInt(1)>>)}
              [] p = "icon_color" ->
                   {PyStr("#ff00aa"), PyStr("#FF00AA"), PyInt(255)}
              [] p \in {"extra", "interactive", "style",
                        "public_notification"} -> {ADoc}
              [] OTHER -> {Text})
      [] f = "amazon" ->
           (CASE p = "expires_after" -> {PyInt(60), Text, Half}
              [] p \in {"extra", "interactive", "style"} -> {ADoc}
              [] OTHER -> {Text})
      [] f = "web" ->
           (CASE p = "icon" -> {ADoc, Text}
              [] p = "time_to_live" -> {PyInt(60), Half}
              [] p = "require_interaction" -> {PyBool(TRUE), Text}
              [] p \in {"extra", "interactive"} -> {ADoc}
              [] OTHER -> {Text})
      [] f = "open_platform" ->
           (CASE p \in {"extra", "interactive"} -> {ADoc}
              [] OTHER -> {Text})
      [] f = "wns_payload" ->
           (CASE p = "alert" -> {Hello, PyStr("")}
              [] p = "badge" -> {PyInt(1), PyInt(0)}
              [] OTHER -> {ADoc, EmptyDoc})
      [] f = "message" ->
           (CASE p = "expiry" -> {PyInt(60), Half}
              [] p \in {"icons", "options", "campaigns"} -> {ADoc, Text}
              [] p = "extra" -> {ADoc}
              [] OTHER -> {Text})
      [] f = "in_app" ->
           (CASE p = "extra" ->
                   {PyDict("k" :> Text), EmptyDoc, ActionsDoc, Text}
              [] p \in {"display", "actions", "interactive"} -> {ADoc}
              [] OTHER -> {Text})
      [] f = "options" ->
           {PyInt(60), PyInt(0), Text, PyStr(""), PyBool(TRUE), Half,
            PyList(<<>>), ADoc}
      [] f = "campaigns" ->
           {PyStr(Letters(n)) : n \in {0, 1, MaxCategoryLen,
                                       MaxCategoryLen + 1}}
           \cup {PyList(Repeat(Text, n)) : n \in {0, 1, MaxCategories,
                                                  MaxCategories + 1}}
           \cup {PyTuple(Repeat(Text, n)) : n \in {0, 1, MaxCategories,
                                                   MaxCategories + 1}}
           \cup {PyList(<<Text, x>>) :
                   x \in {PyInt(1), PyStr(""), PyStr(Letters(MaxCategoryLen)),
                          PyStr(Letters(MaxCategoryLen + 1))}}
           \cup {PyInt(1), ADoc}
      [] f = "actions" ->
           (CASE p \in {"add_tag", "remove_tag"} ->
                   {Text, PyStr(""), PyList(<<Text>>), PyList(<<>>),
                    PyTuple(<<Text>>), PyTuple(<<>>), PyList(<<PyInt(1)>>),
                    PyInt(1), ADoc}
              [] p = "share" -> {Text, PyInt(1)}
              [] OTHER -> {ADoc, Text})
      [] f = "interactive" ->
           (CASE p = "button_actions" -> {ADoc, EmptyDoc, Text}
              [] OTHER -> {Text, PyStr("")})
      [] f = "style" ->
           (CASE p = "style_type" ->
                   {PyStr("big_text"), PyStr("big_picture"), PyStr("inbox"),
                    PyStr("bogus"), PyList(<<>>)}
              [] p = "content" -> {Text, PyList(<<Text, Hello>>)}
              [] OTHER -> {Text})
      [] f = "crop" -> {PyInt(0), Half}
      [] f = "wearable" ->
           (CASE p = "background_image" -> {Text}
              [] p = "extra_pages" -> {PyList(<<ADoc>>)}
              [] OTHER -> {ADoc})
      [] f = "media_attachment" ->
           (CASE p = "url" -> {Text}
              [] OTHER -> {ADoc})
      [] OTHER -> {Text, PyStr("")}

\* The argument record of a call of f that passes picks (parameter |->
\* value) and leaves every other parameter at its default.
Args(f, picks) ==
    [p \in {Params(f)[i] : i \in DOMAIN Params(f)} |->
        IF p \in DOMAIN picks THEN picks[p] ELSE Default(f, p)]

\* f(**a)
Apply(f, a) ==
    CASE f = "notification" -> notification(a)
      [] f = "ios" -> ios(a)
      [] f = "android" -> android(a)
      [] f = "amazon" -> amazon(a)
      [] f = "web" -> web(a)
      [] f = "open_platform" -> open_platform(a)
      [] f = "wns_payload" -> wns_payload(a)
      [] f = "message" -> message(a)
      [] f = "in_app" -> in_app(a)
      [] f = "options" -> options(a)
      [] f = "campaigns" -> campaigns(a)
      [] f = "actions" -> actions(a)
      [] f = "interactive" -> interactive(a)
      [] f = "wearable" -> wearable(a)
      [] f = "public_notification" -> public_notification(a)
      [] f = "style" -> style(a)
      [] f = "media_attachment" -> media_attachment(a)
      [] f = "content" -> content(a)
      [] f = "crop" -> crop(a)

\* The arguments once the call of f is over: in_app alone writes to one.
After(f, a) == IF f = "in_app" THEN in_app_args(a) ELSE a

\* The tags a call of device_types may pass, and the calls: every sequence
\* of at most MaxTypes tags.
TypeTags ==
    {PyStr("ios"), PyStr("android"), PyStr("amazon"), PyStr("wns"),
     PyStr("web"), PyStr("all"), PyStr("open::sms"), PyStr("symbian"),
     PyStr("open:"), PyInt(1)}

TypeCalls == UNION {[1..n -> TypeTags] : n \in 0..MaxTypes}

Init ==
    /\ fn = "idle"
    /\ args = EmptyMap
    /\ argsAfter = EmptyMap
    /\ outcome = Raise("-")

\* One call: the builder, its arguments before and after, its outcome.
Invoke(f, a, after, out) ==
    /\ fn' = f
    /\ args' = a
    /\ argsAfter' = after
    /\ outcome' = out

RECURSIVE Pick(_, _, _, _)
\* A call of builder f: each of its first i parameters is left at its
\* default or, for at most k of them, passed one of its values; picks holds
\* the values passed so far.
Pick(f, i, k, picks) ==
    IF i = 0
    THEN Invoke(f, Args(f, picks), After(f, Args(f, picks)),
                Apply(f, Args(f, picks)))
    ELSE \/ Pick(f, i - 1, k, picks)
         \/ /\ k > 0
            /\ \E v \in Cand(f, Params(f)[i]) :
                  Pick(f, i - 1, k - 1, SetItem(picks, Params(f)[i], v))

\* The calls of builder f with at most MaxSupplied arguments passed.
Calls(f) == Pick(f, Len(Params(f)), MaxSupplied, EmptyMap)

Call_notification == fn = "idle" /\ Calls("notification")
Call_ios == fn = "idle" /\ Calls("ios")
Call_android == fn = "idle" /\ Calls("android")
Call_amazon == fn = "idle" /\ Calls("amazon")
Call_web == fn = "idle" /\ Calls("web")
Call_open_platform == fn = "idle" /\ Calls("open_platform")
Call_wns_payload == fn = "idle" /\ Calls("wns_payload")
Call_message == fn = "idle" /\ Calls("message")
Call_in_app == fn = "idle" /\ Calls("in_app")
Call_device_types ==
    fn = "idle" /\ \E t \in TypeCalls :
                      Invoke("device_types", [types |-> PyTuple(t)],
                             [types |-> PyTuple(t)], device_types(t))
Call_options == fn = "idle" /\ Calls("options")
Call_campaigns == fn = "idle" /\ Calls("campaigns")
Call_actions == fn = "idle" /\ Calls("actions")
Call_interactive == fn = "idle" /\ Calls("interactive")
Call_wearable == fn = "idle" /\ Calls("wearable")
Call_public_notification == fn = "idle" /\ Calls("public_notification")
Call_style == fn = "idle" /\ Calls("style")
Call_media_attachment == fn = "idle" /\ Calls("media_attachment")
Call_content == fn = "idle" /\ Calls("content")
Call_crop == fn = "idle" /\ Calls("crop")

Next ==
    \/ Call_notification
    \/ Call_ios
    \/ Call_android
    \/ Call_amazon
    \/ Call_web
    \/ Call_open_platform
    \/ Call_wns_payload
    \/ Call_message
    \/ Call_in_app
    \/ Call_device_types
    \/ Call_options
    \/ Call_campaigns
    \/ Call_actions
    \/ Call_interactive
    \/ Call_wearable
    \/ Call_public_notification
    \/ Call_style
    \/ Call_media_attachment
    \/ Call_content
    \/ Call_crop

Spec == Init /\ [][Next]_vars

(***************************************************************************)
(* The properties.  Each is about the call the state records.              *)
(***************************************************************************)
Returned == outcome.kind = "return"
\* the returned document, and its keys
Doc == outcome.value.map
Keys == DOMAIN Doc

\* The parameters of builder f whose argument is not None.
NotNone(f) == {Params(f)[i] : i \in {j \in DOMAIN Params(f) :
                                        args[Params(f)[j]] # None}}

\* The fixed arguments of notification: all but open_platform.
FixedArgs == {Params("notification")[i] : i \in 1..9}

OpenPlatformIsMapping ==
    args.open_platform = None \/ IsDict(args.open_platform)

\* The document of notification would be empty: no fixed argument, and no
\* open platform entry.
NothingToSend ==
    /\ \A p \in FixedArgs : args[p] = None
    /\ args.open_platform = None \/ ~Truthy(args.open_platform)

\* C1 as stated: notification raises ValueError if and only if all ten
\* arguments are None, and returns a document with at least one field
\* whenever an argument is supplied (open_platform, when supplied, a
\* mapping).
C1_RaisesIffAllOmitted ==
    (fn = "notification" /\ OpenPlatformIsMapping) =>
        /\ outcome = Raise("ValueError") <=> NotNone("notification") = {}
        /\ NotNone("notification") # {} => Returned /\ Keys # {}

\* C1 as amended: notification raises ValueError exactly when its document
\* would be empty, that is when the nine fixed arguments are None and
\* open_platform is None or an empty mapping; in every other call whose
\* open_platform is None or a mapping it returns a document with at least
\* one field.
C1_RaisesIffEmptyDocument ==
    (fn = "notification" /\ OpenPlatformIsMapping) =>
        /\ outcome = Raise("ValueError") <=> NothingToSend
        /\ ~NothingToSend => Returned /\ Keys # {}

\* An empty open_platform mapping alone raises the empty-result error.
C1_Witness ==
    /\ fn = "notification"
    /\ NotNone("notification") = {"open_platform"}
    /\ args.open_platform = EmptyDoc
    /\ outcome = Raise("ValueError")

PlatformBuilders == {"ios", "android", "amazon", "web", "open_platform"}

Flags == {"content_available", "delay_while_idle"}

\* The values the specification allows for parameter p of a platform
\* override builder.
ValidOverride(f, p, v) ==
    CASE f = "ios" /\ p = "alert" -> IsString(v) \/ IsDict(v)
      [] f = "ios" /\ p = "badge" ->
           v.tag = "int" \/ (IsString(v) /\ VALID_AUTOBADGE(v.s))
      [] f = "ios" /\ p = "expiry" -> IsString(v) \/ v.tag = "int"
      [] f = "ios" /\ p \in {"category", "title", "collapse_id"} ->
           IsString(v)
      [] f = "ios" /\ p = "priority" -> v \in {PyInt(5), PyInt(10)}
      [] f = "android" /\ p = "time_to_live" -> IsString(v) \/ v.tag = "int"
      [] f = "android" /\ p = "local_only" -> IsBool(v)
      [] f = "android" /\ p = "wearable" -> IsDict(v)
      [] f = "android" /\ p = "delivery_priority" ->
           v \in {PyStr("high"), PyStr("normal")}
      [] f = "android" /\ p = "priority" -> v \in {PyInt(n) : n \in -2..2}
      [] f = "android" /\ p = "category" ->
           IsString(v) /\ v.s \in VALID_ANDROID_CATEGORIES
      [] f = "android" /\ p = "visibility" -> v \in {PyInt(n) : n \in -1..1}
      [] f = "android" /\ p = "icon_color" ->
           IsString(v) => VALID_ICON_COLOR(v.s)
      [] f = "amazon" /\ p = "expires_after" -> IsString(v) \/ v.tag = "int"
      [] f = "web" /\ p = "icon" -> IsDict(v)
      [] f = "web" /\ p = "time_to_live" -> IsString(v) \/ v.tag = "int"
      [] f = "web" /\ p = "require_interaction" -> IsBool(v)
      [] p \in Flags -> IsBool(v)
      [] OTHER -> TRUE

\* The parameters a call supplies: a flag when it is true, any other
\* parameter when it is not None.
SuppliedTo(f) ==
    {p \in NotNone(f) : p \in Flags => args[p] = PyBool(TRUE)}

\* The key a parameter is emitted under, and the value it carries.
KeyOf(p) == IF p = "content_available" THEN "content-available" ELSE p
ValueOf(p) ==
    CASE p = "content_available" -> PyInt(1)
      [] p = "delay_while_idle" -> PyBool(TRUE)
      [] OTHER -> args[p]

Filters ==
    {"wearable", "public_notification", "media_attachment", "content", "crop"}

\* C3: wearable, public_notification, media_attachment, content and crop
\* return exactly one field per argument that is not None, named after the
\* argument and holding its value (content emits 'body' for body).
C3_FiltersKeepSuppliedFields ==
    fn \in Filters =>
        /\ Returned
        /\ Keys = NotNone(fn)
        /\ \A p \in NotNone(fn) : Doc[p] = args[p]

InAppOptional == {"expiry", "display", "actions", "interactive", "extra"}

\* C4: in_app, given its alert and display_type (and, for extra, a
\* mapping), returns a document that always holds 'alert' and
\* 'display_type' and holds each of expiry, display, actions, interactive
\* and extra, with the supplied value, exactly when it was supplied.
C4_InAppEmitsSuppliedFields ==
    (/\ fn = "in_app"
     /\ args.alert # None /\ args.display_type # None
     /\ args.extra = None \/ IsDict(args.extra)) =>
        /\ Returned
        /\ {"alert", "display_type"} \subseteq Keys
        /\ Doc["alert"] = args.alert /\ Doc["display_type"] = args.display_type
        /\ \A p \in InAppOptional :
              /\ p \in Keys <=> args[p] # None
              /\ p \in Keys => Doc[p] = args[p]

\* C5: a call leaves every argument as it was before the call.
C5_InputsUnchanged == fn # "idle" => argsAfter = args

WnsVariants == {"alert", "toast", "tile", "badge"}

\* C6: wns_payload returns a document exactly when one of alert, toast,
\* tile and badge is not None, the document then holds that one field, and
\* every other call raises ValueError.
C6_WnsExactlyOneVariant ==
    fn = "wns_payload" =>
        /\ Returned <=> Cardinality(NotNone("wns_payload")) = 1
        /\ Returned => /\ Keys = NotNone("wns_payload")
                       /\ \A p \in Keys : Doc[p] = args[p]
        /\ ~Returned => outcome = Raise("ValueError")

PlatformTags ==
    {PyStr("ios"), PyStr("android"), PyStr("amazon"), PyStr("wns"),
     PyStr("web")}

\* A platform tag, or a string that starts with 'open::'.
AllowedTag(t) ==
    \/ t \in PlatformTags
    \/ IsString(t) /\ Len(t.s) >= 6 /\ SubSeq(t.s, 1, 6) = "open::"

\* the tags of the recorded call of device_types
Tags == args.types.items

IsCategory(c) == IsString(c) /\ Len(c.s) >= 1 /\ Len(c.s) <= MaxCategoryLen

\* A string category, or a list or tuple of 1 to 10 categories.
AcceptableCategories(c) ==
    \/ IsCategory(c)
    \/ /\ c.tag \in {"list", "tuple"}
       /\ Len(c.items) >= 1 /\ Len(c.items) <= MaxCategories
       /\ \A i \in DOMAIN c.items : IsCategory(c.items[i])

\* C8: campaigns returns, for supplied categories, exactly when they are a
\* category string or a sequence (list or tuple) of 1 to 10 category
\* strings, and the document is then {'categories': <list of them>}; every
\* other supplied value raises.
C8_CampaignsCategories ==
    (fn = "campaigns" /\ args.categories # None) =>
        /\ Returned <=> AcceptableCategories(args.categories)
        /\ Returned =>
              outcome.value =
                 PyDict("categories" :>
                           PyList(IF IsString(args.categories)
                                  THEN <<args.categories>>
                                  ELSE args.categories.items))

\* A tag argument: a string, or a non-empty list or tuple of strings.
AcceptableTag(t) ==
    \/ IsString(t)
    \/ /\ t.tag \in {"list", "tuple"}
       /\ Len(t.items) >= 1
       /\ \A i \in DOMAIN t.items : IsString(t.items[i])

\* C9: actions returns exactly when add_tag and remove_tag, if supplied,
\* are a string or a non-empty sequence of strings, open_ and app_defined,
\* if supplied, are mappings and share, if supplied, is a string; every
\* other call raises, and open_ is emitted under 'open'.
C9_ActionsValidation ==
    fn = "actions" =>
        /\ Returned <=>
              /\ \A p \in {"add_tag", "remove_tag"} :
                    args[p] # None => AcceptableTag(args[p])
              /\ \A p \in {"open_", "app_defined"} :
                    args[p] # None => IsDict(args[p])
              /\ args.share # None => IsString(args.share)
        /\ Returned =>
              /\ "open" \in Keys <=> args.open_ # None
              /\ "open" \in Keys => Doc["open"] = args.open_

\* C10: options raises ValueError when expiry is None or is neither an
\* integer nor a string, and returns exactly {'expiry': expiry} for an
\* integer (bool included, as for isinstance) or a string.
C10_OptionsExpiryRequired ==
    fn = "options" =>
        IF IsString(args.expiry) \/ args.expiry.tag \in {"int", "bool"}
        THEN outcome = Return(PyDict("expiry" :> args.expiry))
        ELSE outcome = Raise("ValueError")

\* options() with expiry left out raises.
C10_Witness ==
    /\ fn = "options"
    /\ args.expiry = None
    /\ outcome = Raise("ValueError")

StyleTypes == {PyStr("big_text"), PyStr("big_picture"), PyStr("inbox")}

\* The key the specification gives the content of each style.
ContentKey(t) ==
    CASE t = PyStr("big_text") -> "big_text"
      [] t = PyStr("big_picture") -> "big_picture"
      [] t = PyStr("inbox") -> "lines"

\* The document of a style call of a known type: the type, and the content,
\* title and summary that are not None.
StyleDocument ==
    /\ Returned
    /\ Keys = {"type"}
              \cup {ContentKey(args.style_type) : x \in {args.content} \ {None}}
              \cup (NotNone("style") \cap {"title", "summary"})
    /\ Doc["type"] = args.style_type
    /\ args.content # None => Doc[ContentKey(args.style_type)] = args.content
    /\ \A p \in NotNone("style") \cap {"title", "summary"} : Doc[p] = args[p]

\* C11 as stated: style called with a type of big_text, big_picture or inbox
\* (and a content) returns 'type', the content under big_text, big_picture
\* or lines, and 'title' and 'summary' only when supplied; with any other
\* style_type it raises ValueError.
C11_StyleOtherTypeValueError ==
    (fn = "style" /\ args.content # None) =>
        IF args.style_type \in StyleTypes
        THEN StyleDocument
        ELSE outcome = Raise("ValueError")

\* C11 as amended: as stated for the three known types (a content of None
\* is dropped like a title or summary of None); any other style_type that
\* can be hashed raises ValueError, and one that cannot (a list, a
\* dictionary) raises TypeError.
C11_StyleOtherTypeRaises ==
    fn = "style" =>
        IF args.style_type \in StyleTypes
        THEN StyleDocument
        ELSE outcome = Raise(IF args.style_type.tag \in {"list", "dict"}
                             THEN "TypeError" ELSE "ValueError")

\* style('inbox', [...], title=...) returns the content under 'lines'.
C11_Witness ==
    /\ fn = "style"
    /\ args.style_type = PyStr("inbox")
    /\ args.content = PyList(<<Text, Hello>>)
    /\ args.title = Text
    /\ args.summary = None
    /\ Keys = {"type", "lines", "title"}

\* C12: interactive raises whenever type is None, whatever button_actions
\* is; raises when type is given and button_actions is supplied and not a
\* mapping; and otherwise returns a document holding 'type' and, only when
\* supplied, 'button_actions'.
C12_InteractiveRequiresType ==
    fn = "interactive" =>
        IF args.type = None
        THEN ~Returned
        ELSE IF args.button_actions # None /\ ~IsDict(args.button_actions)
             THEN ~Returned
             ELSE /\ Returned
                  /\ Keys = NotNone("interactive")
                  /\ \A p \in Keys : Doc[p] = args[p]

\* interactive(button_actions={...}) without a type raises.
C12_Witness ==
    /\ fn = "interactive"
    /\ args.type = None
    /\ IsDict(args.button_actions)
    /\ outcome = Raise("AttributeError")

\* Every argument of the call other than q has a value the specification
\* allows.
OthersValid(f, q) ==
    \A p \in NotNone(f) \ {q} : ValidOverride(f, p, args[p])

\* v is the number n: the integer, or the float equal to it.
IsNumber(v, n) == v = PyInt(n) \/ (v.tag = "float" /\ v.num = n * v.den)

\* C13 as stated: ios (its other arguments valid) emits a supplied priority
\* of 5 or 10 unchanged under 'priority', raises ValueError for every other
\* supplied priority, and with priority omitted returns a document without
\* 'priority'.
C13_IosPriorityElseValueError ==
    (fn = "ios" /\ OthersValid("ios", "priority")) =>
        IF args.priority = None
        THEN Returned /\ "priority" \notin Keys
        ELSE IF IsNumber(args.priority, 5) \/ IsNumber(args.priority, 10)
             THEN Returned /\ Doc["priority"] = args.priority
             ELSE outcome = Raise("ValueError")

\* C13 as amended: as stated, 5 and 10 compared by value (5.0 is accepted
\* and emitted as 5.0), except that a supplied priority that cannot be
\* hashed (a list, a dictionary) raises TypeError instead of ValueError.
C13_IosPriorityElseRaises ==
    (fn = "ios" /\ OthersValid("ios", "priority")) =>
        IF args.priority = None
        THEN Returned /\ "priority" \notin Keys
        ELSE IF IsNumber(args.priority, 5) \/ IsNumber(args.priority, 10)
             THEN Returned /\ Doc["priority"] = args.priority
             ELSE outcome = Raise(IF args.priority.tag \in {"list", "dict"}
                                  THEN "TypeError" ELSE "ValueError")

\* ios(priority=7) raises ValueError.
C13_Witness ==
    /\ fn = "ios"
    /\ NotNone("ios") = {"content_available", "priority"}
    /\ args.priority = PyInt(7)
    /\ outcome = Raise("ValueError")

\* C14: message never returns a document when title or body is None, every
\* document it returns holds a 'title' and a 'body' that are not None, and
\* it raises when a supplied icons, options or campaigns is not a mapping
\* or a supplied expiry is neither an integer nor a string.
C14_MessageRequiresTitleAndBody ==
    fn = "message" =>
        /\ (args.title = None \/ args.body = None) => ~Returned
        /\ Returned => /\ {"title", "body"} \subseteq Keys
                       /\ Doc["title"] # None
                       /\ Doc["body"] # None
        /\ (\E p \in {"icons", "options", "campaigns"} :
               args[p] # None /\ ~IsDict(args[p])) => ~Returned
        /\ (/\ args.expiry # None
            /\ ~(IsString(args.expiry) \/ IsInt(args.expiry))) => ~Returned

\* The outcome of calling the builder once more with the same argument
\* objects, as the first call has left them.
SecondCall ==
    IF fn = "device_types"
    THEN device_types(argsAfter.types.items)
    ELSE Apply(fn, argsAfter)

FixedSupplied == NotNone("notification") \cap FixedArgs
OpenNames ==
    IF args.open_platform = None THEN {} ELSE DOMAIN args.open_platform.map

\* C16: notification (open_platform None or a mapping) stores every entry
\* of open_platform under 'open::' + name with its value unchanged; no such
\* key is the key of a fixed argument, so the document has exactly one key
\* per supplied fixed argument, holding its value, plus one per entry.
C16_OpenPlatformEntries ==
    (fn = "notification" /\ OpenPlatformIsMapping) =>
        /\ ~NothingToSend => Returned
        /\ Returned =>
              /\ Keys = FixedSupplied \cup {"open::" \o k : k \in OpenNames}
              /\ \A p \in FixedSupplied : Doc[p] = args[p]
              /\ \A k \in OpenNames :
                    /\ "open::" \o k \notin FixedArgs
                    /\ Doc["open::" \o k] = args.open_platform.map[k]
              /\ Cardinality(Keys) =
                    Cardinality(FixedSupplied) + Cardinality(OpenNames)

\* An open platform named like a fixed argument keeps both fields apart.
C16_Witness ==
    /\ fn = "notification"
    /\ args.alert = Hello
    /\ args.open_platform = PyDict("alert" :> ADoc)
    /\ Returned
    /\ Keys = {"alert", "open::alert"}
    /\ Doc["alert"] = Hello
    /\ Doc["open::alert"] = ADoc

\* The range the specification gives priority and visibility of android.
RangeOf(q) == IF q = "priority" THEN -2..2 ELSE -1..1

\* v is an integer (a bool is one, as for isinstance) of the set S.
IsIntegerIn(v, S) ==
    \/ v.tag = "int" /\ v.n \in S
    \/ v.tag = "bool" /\ (IF v.b THEN 1 ELSE 0) \in S

\* v equals an integer of the set S: an integer of S, or a float of that
\* value.
EqualsIntegerIn(v, S) ==
    \/ IsIntegerIn(v, S)
    \/ v.tag = "float" /\ \E n \in S : v.num = n * v.den

LateFieldInvalid ==
    \/ /\ fn = "android"
       /\ args.time_to_live # None
       /\ ~(IsString(args.time_to_live) \/ IsInt(args.time_to_live))
    \/ /\ fn = "amazon"
       /\ args.expires_after # None
       /\ ~(IsString(args.expires_after) \/ IsInt(args.expires_after))
    \/ /\ fn = "message"
       /\ args.expiry # None
       /\ ~(IsString(args.expiry) \/ IsInt(args.expiry))
    \/ /\ fn = "web"
       /\ args.icon # None
       /\ ~IsDict(args.icon)

\* C18: android with a time_to_live, amazon with an expires_after or
\* message with an expiry that is neither an integer nor a string, and web
\* with an icon that is not a mapping, raise and return no document,
\* whatever other fields the call supplies.
C18_NoPartialDocument ==
    LateFieldInvalid =>
        /\ outcome.kind = "raise"
        /\ outcome.exc \in {"ValueError", "TypeError"}
        /\ outcome.value = None

\* web(alert=..., icon='text', title=...) raises although the fields before
\* and after icon are valid.
C18_Witness ==
    /\ fn = "web"
    /\ args.alert = Text
    /\ args.icon = Text
    /\ args.title = Text
    /\ outcome = Raise("TypeError")

====
